---- MODULE Spec2Model ----
(***************************************************************************)
(* Model of the two type-erasing containers of this repository:            *)
(*   Any::Polymorphic::Any  (include/Polymorphic/AnyPolymorphic.hpp)       *)
(*   Any::Procedural::Any   (include/Procedural/AnyProcedural.hpp)         *)
(* Both are driven by the same sequence of operations, side by side.       *)
(* A container is a named object (1..NumCont); the heap holds the erasure  *)
(* records (AnyTyped<T> / VtableTyped<T>) allocated with new/make_unique.  *)
(***************************************************************************)
EXTENDS Integers, Sequences, FiniteSets, TLC

(* ------------------------------ bounds --------------------------------- *)
NumCont == 2          \* named container objects
MaxRec  == 3          \* heap records that can be allocated in one run

Cont  == 1..NumCont
Temp  == 0            \* the local `Any temp` of operator=
Slots == Cont \cup {Temp}
Rec   == 1..MaxRec
Null  == 0            \* nullptr
Wild  == 0 - 1        \* a reference that does not designate a stored value
Val   == {0, 1}       \* payload values of a stored object

(* ------------------------------ types ---------------------------------- *)
BaseTy == {"int", "string"}            \* decayed value types
Quals  == {"", "&"}                    \* T, T&
ReqTy  == [base : BaseTy, qual : Quals] \* a template argument ValueType
VoidTy == "void"

\* std::decay_t<ValueType>: strips the reference and the cv-qualifier.
Decay(U) == U.base

\* typeid(ValueType): refers to the cv-unqualified referenced type.
TypeId(U) == U.base

\* Object layout of the member `ValueType value_`: a reference member is
\* stored as an address.
Layout(U) == IF U.qual = "&" THEN "address" ELSE U.base

Plain(T) == [base |-> T, qual |-> ""]

VARIABLES
  base_,      \* Polymorphic: AnyBasePtr base_ of every container (Temp: local)
  polyHeap,   \* Polymorphic: the AnyTyped<T> records
  vtable_,    \* Procedural: Vtable* vtable_ of every container
  procHeap,   \* Procedural: the VtableTyped<T> records
  alive,      \* which named containers are within their lifetime
  last        \* the last call: its operation and what it did in each variant

vars == <<base_, polyHeap, vtable_, procHeap, alive, last>>

\* storage that holds no AnyTyped<T>
NoRec == [st |-> "unalloc", type |-> VoidTy, value_ |-> 0, destroys |-> 0]

NAlloc(heap) == Cardinality({r \in Rec : heap[r].st # "unalloc"})

\* the address the next new-expression returns
NewPtr(heap) == NAlloc(heap) + 1

Ev(k, r) == [k |-> k, r |-> r]

(***************************************************************************)
(* Polymorphic variant.  A machine state M is                              *)
(*   [slot, heap, ev, exc, ret]: the slots, the heap, the constructions    *)
(*   and destructions of stored values so far in this call, the exception  *)
(*   in flight and the reference returned.                                 *)
(***************************************************************************)

\* AnyTyped<T>::AnyTyped(args...) through MakeAnyBasePtr / make_unique
MakeAnyBasePtr(M, T, v, kind) ==
  LET p == NewPtr(M.heap) IN
  [M EXCEPT !.heap[p] = [st |-> "live", type |-> T, value_ |-> v, destroys |-> 0],
            !.ev = Append(@, Ev(kind, p))]

\* delete of an AnyBase* by unique_ptr (virtual ~AnyBase)
PolyDelete(M, p) ==
  IF p = Null THEN M
  ELSE [M EXCEPT !.heap[p] = [st |-> "freed", type |-> VoidTy, value_ |-> 0,
                              destroys |-> @.destroys + 1],
                 !.ev = Append(@, Ev("destroy", p))]

PolyHasValue(slot, c) == slot[c] # Null

\* mutant: Type() reports typeid(void) whatever is held
PolyType_Void(slot, heap, c) == VoidTy

PolyType(slot, heap, c) ==
  IF ~PolyHasValue(slot, c) THEN VoidTy ELSE heap[slot[c]].type

\* AnyTyped<T>::Clone via CloneBase; `fail`: T's copy constructor throws
PolyCloneBase(M, other, fail) ==
  IF ~PolyHasValue(M.slot, other) THEN [M EXCEPT !.ret = Null]
  ELSE IF fail THEN [M EXCEPT !.exc = "copy", !.ret = Null]
  ELSE LET src == M.heap[M.slot[other]] IN
       [MakeAnyBasePtr(M, src.type, src.value_, "copy") EXCEPT !.ret = NewPtr(M.heap)]

PolyCopyCtor(M, this, other, fail) ==
  LET M1 == PolyCloneBase(M, other, fail) IN
  IF M1.exc # "none" THEN M1
  ELSE [M1 EXCEPT !.slot[this] = M1.ret, !.ret = Null]

PolyMoveCtor(M, this, other) ==
  [M EXCEPT !.slot[this] = M.slot[other], !.slot[other] = Null]

PolyValueCtor(M, this, U, v) ==
  [MakeAnyBasePtr(M, Decay(U), v, "construct") EXCEPT !.slot[this] = NewPtr(M.heap)]

PolyDtor(M, this) ==
  [PolyDelete(M, M.slot[this]) EXCEPT !.slot[this] = Null]

PolySwap(M, this, other) ==
  [M EXCEPT !.slot[this] = M.slot[other], !.slot[other] = M.slot[this]]

PolyCopyAssign(M, this, other, fail) ==
  IF this = other THEN M
  ELSE LET M1 == PolyCopyCtor(M, Temp, other, fail) IN
       IF M1.exc # "none" THEN M1
       ELSE PolyDtor(PolySwap(M1, this, Temp), Temp)

PolyMoveAssign(M, this, other) ==
  IF this = other THEN M
  ELSE PolyDtor(PolySwap(PolyMoveCtor(M, Temp, other), this, Temp), Temp)

PolyReset(M, this) ==
  [PolyDelete(M, M.slot[this]) EXCEPT !.slot[this] = Null]

PolyAnyCastImpl(M, this, U) ==
  IF ~PolyHasValue(M.slot, this) \/ TypeId(U) # PolyType(M.slot, M.heap, this)
  THEN [M EXCEPT !.exc = "BadCast", !.ret = Null]
  ELSE \* static_cast<AnyTyped<U>*>(base_.get())->GetValue()
       IF Layout(U) = Layout(Plain(M.heap[M.slot[this]].type))
       THEN [M EXCEPT !.ret = M.slot[this]]
       ELSE [M EXCEPT !.ret = Wild]

PolyEmplace(M, this, U, v) ==
  LET p  == NewPtr(M.heap)
      M1 == MakeAnyBasePtr(M, Decay(U), v, "construct")
      \* unique_ptr move assignment: take the new pointer, delete the old one
      M2 == PolyDelete([M1 EXCEPT !.slot[this] = p], M.slot[this])
  IN PolyAnyCastImpl(M2, this, Plain(Decay(U)))

(***************************************************************************)
(* Procedural variant.  A record VtableTyped<T> has, besides value_, the   *)
(* member func_table_ of its base Vtable: the three function addresses     *)
(* that MakeFuncTable<T>() returned when the record was constructed.  A    *)
(* function address is named by the instantiation it belongs to.           *)
(***************************************************************************)

\* FuncTableT{} : a table without functions
NoTable == [clone_func |-> VoidTy, get_type_info_func |-> VoidTy, destroy_func |-> VoidTy]

\* storage that holds no VtableTyped<T>
ProcNoRec == [st |-> "unalloc", type |-> VoidTy, value_ |-> 0, destroys |-> 0,
              func_table_ |-> NoTable]

\* &MakeFuncHelper<T>::CloneFuncImpl, ::TypeInfoFuncImpl, ::DestroyFuncImpl
MakeFuncTable(T) == [clone_func |-> T, get_type_info_func |-> T, destroy_func |-> T]

\* new VtableTyped<T>(args...)
NewVtableTyped(M, T, v, kind) ==
  LET p == NewPtr(M.heap) IN
  [M EXCEPT !.heap[p] = [st |-> "live", type |-> T, value_ |-> v, destroys |-> 0,
                         func_table_ |-> MakeFuncTable(T)],
            !.ev = Append(@, Ev(kind, p))]

\* Vtable::Destroy -> func_table_.destroy_func = DestroyFuncImpl of some T:
\* delete static_cast<VtableTyped<T>*>(self)
VtableDestroy(M, p) ==
  [M EXCEPT !.heap[p] = [st |-> "freed", type |-> VoidTy, value_ |-> 0,
                         destroys |-> @.destroys + 1, func_table_ |-> NoTable],
            !.ev = Append(@, Ev("destroy", p))]

DestroyVtable(M, p) == IF p # Null THEN VtableDestroy(M, p) ELSE M

NullifyVtable(M, this) == [M EXCEPT !.slot[this] = Null]

ProcHasValue(slot, c) == slot[c] # Null

\* Vtable::GetTypeInfo -> func_table_.get_type_info_func = TypeInfoFuncImpl of
\* some T: typeid(T)
VtableGetTypeInfo(heap, p) == heap[p].func_table_.get_type_info_func

ProcType(slot, heap, c) ==
  IF ~ProcHasValue(slot, c) THEN VoidTy ELSE VtableGetTypeInfo(heap, slot[c])

\* mutant: the copy shares the record instead of cloning it
CloneVtable_Shallow(M, other, fail) ==
  IF ~ProcHasValue(M.slot, other) THEN [M EXCEPT !.ret = Null]
  ELSE IF fail THEN [M EXCEPT !.exc = "copy", !.ret = Null]
  ELSE [M EXCEPT !.ret = M.slot[other]]

\* Vtable::Clone -> func_table_.clone_func = CloneFuncImpl of some T:
\* new VtableTyped<T>{self->GetValue()}, called by CloneVtable
CloneVtable(M, other, fail) ==
  IF ~ProcHasValue(M.slot, other) THEN [M EXCEPT !.ret = Null]
  ELSE IF fail THEN [M EXCEPT !.exc = "copy", !.ret = Null]
  ELSE LET src == M.heap[M.slot[other]] IN
       [NewVtableTyped(M, src.func_table_.clone_func, src.value_, "copy")
          EXCEPT !.ret = NewPtr(M.heap)]

ProcCopyCtor(M, this, other, fail) ==
  LET M1 == CloneVtable(M, other, fail) IN
  IF M1.exc # "none" THEN M1
  ELSE [M1 EXCEPT !.slot[this] = M1.ret, !.ret = Null]

\* mutant: the source keeps its pointer (other.vtable_ = nullptr forgotten)
ProcMoveCtor_NoNullify(M, this, other) ==
  [M EXCEPT !.slot[this] = M.slot[other]]

ProcMoveCtor(M, this, other) ==
  [[M EXCEPT !.slot[this] = M.slot[other]] EXCEPT !.slot[other] = Null]

ProcValueCtor(M, this, U, v) ==
  [NewVtableTyped(M, Decay(U), v, "construct") EXCEPT !.slot[this] = NewPtr(M.heap)]

\* mutant: the destructor does not destroy the record
ProcDtor_Leak(M, this) == [M EXCEPT !.slot[this] = Null]

\* ~Any(): the object is gone afterwards, its slot is cleared
ProcDtor(M, this) ==
  [DestroyVtable(M, M.slot[this]) EXCEPT !.slot[this] = Null]

\* mutant: one-way assignment instead of an exchange
ProcSwap_Assign(M, this, other) ==
  [M EXCEPT !.slot[this] = M.slot[other]]

ProcSwap(M, this, other) ==
  [M EXCEPT !.slot[this] = M.slot[other], !.slot[other] = M.slot[this]]

\* mutant: no check for self-assignment
ProcCopyAssign_NoSelfCheck(M, this, other, fail) ==
  LET M1 == ProcCopyCtor(M, Temp, other, fail) IN
  IF M1.exc # "none" THEN M1
  ELSE ProcDtor(ProcSwap(M1, this, Temp), Temp)

\* mutant: the held record is released before the clone is made
ProcCopyAssign_ReleaseFirst(M, this, other, fail) ==
  IF this = other THEN M
  ELSE LET M0 == ProcDtor(M, this)
           M1 == ProcCopyCtor(M0, this, other, fail)
       IN M1

ProcCopyAssign(M, this, other, fail) ==
  IF this = other THEN M
  ELSE LET M1 == ProcCopyCtor(M, Temp, other, fail) IN
       IF M1.exc # "none" THEN M1
       ELSE ProcDtor(ProcSwap(M1, this, Temp), Temp)

ProcMoveAssign(M, this, other) ==
  IF this = other THEN M
  ELSE ProcDtor(ProcSwap(ProcMoveCtor(M, Temp, other), this, Temp), Temp)

\* mutant: the pointer is not cleared after the record is destroyed
ProcReset_NoNullify(M, this) == DestroyVtable(M, M.slot[this])

ProcReset(M, this) ==
  NullifyVtable(DestroyVtable(M, M.slot[this]), this)

ProcAnyCastImpl(M, this, U) ==
  IF M.slot[this] = Null \/ VtableGetTypeInfo(M.heap, M.slot[this]) # TypeId(U)
  THEN [M EXCEPT !.exc = "BadCast", !.ret = Null]
  ELSE \* static_cast<VtableTyped<U>*>(vtable_)->GetValue()
       IF Layout(U) = Layout(Plain(M.heap[M.slot[this]].type))
       THEN [M EXCEPT !.ret = M.slot[this]]
       ELSE [M EXCEPT !.ret = Wild]

\* mutant: the old record is destroyed before the new one is constructed
ProcEmplace_DestroyFirst(M, this, U, v) ==
  LET M1 == DestroyVtable(M, M.slot[this])
      p  == NewPtr(M1.heap)
      M2 == [NewVtableTyped(M1, Decay(U), v, "construct") EXCEPT !.slot[this] = p]
  IN ProcAnyCastImpl(M2, this, Plain(Decay(U)))

ProcEmplace(M, this, U, v) ==
  LET safe_copy == M.slot[this]
      p  == NewPtr(M.heap)
      M1 == [NewVtableTyped(M, Decay(U), v, "construct") EXCEPT !.slot[this] = p]
      M2 == DestroyVtable(M1, safe_copy)
  IN ProcAnyCastImpl(M2, this, Plain(Decay(U)))

(* --------------------------- the state machine -------------------------- *)

Mach(slot, heap) == [slot |-> slot, heap |-> heap, ev |-> <<>>, exc |-> "none", ret |-> Null]

PolyM == Mach(base_, polyHeap)
ProcM == Mach(vtable_, procHeap)

NoU == [base |-> VoidTy, qual |-> ""]

Out(M) == [ev |-> M.ev, exc |-> M.exc, ret |-> M.ret]

\* a call of a public operation: this container c, argument container d,
\* template argument U, value v, and whether the value's copy constructor throws
Call(op, c, d, U, v, fail) ==
  [op |-> op, c |-> c, d |-> d, U |-> U, v |-> v, fail |-> fail]

Calls ==
  {Call("DefaultCtor", c, 0, NoU, 0, FALSE) : c \in Cont}
  \cup {Call("ValueCtor", x[1], 0, x[2], x[3], FALSE) : x \in Cont \X ReqTy \X Val}
  \cup {Call("CopyCtor", x[1], x[2], NoU, 0, x[3]) : x \in Cont \X Cont \X BOOLEAN}
  \cup {Call("MoveCtor", x[1], x[2], NoU, 0, FALSE) : x \in Cont \X Cont}
  \cup {Call("Dtor", c, 0, NoU, 0, FALSE) : c \in Cont}
  \cup {Call("CopyAssign", x[1], x[2], NoU, 0, x[3]) : x \in Cont \X Cont \X BOOLEAN}
  \cup {Call("MoveAssign", x[1], x[2], NoU, 0, FALSE) : x \in Cont \X Cont}
  \cup {Call("Emplace", x[1], 0, x[2], x[3], FALSE) : x \in Cont \X ReqTy \X Val}
  \cup {Call("Reset", c, 0, NoU, 0, FALSE) : c \in Cont}
  \cup {Call("Swap", x[1], x[2], NoU, 0, FALSE) : x \in Cont \X Cont}
  \cup {Call("AnyCast", x[1], 0, Plain(x[2]), x[3], FALSE) : x \in Cont \X BaseTy \X Val}

\* the caller stores w through the reference AnyCast returned, if it returned
WriteRef(M, w) ==
  IF M.exc = "none" /\ M.ret \in Rec
  THEN [M EXCEPT !.heap[M.ret].value_ = w]
  ELSE M

\* what the call does in the Polymorphic variant
PolyDo(k) ==
  CASE k.op = "DefaultCtor" -> PolyM
    [] k.op = "ValueCtor"   -> PolyValueCtor(PolyM, k.c, k.U, k.v)
    [] k.op = "CopyCtor"    -> PolyCopyCtor(PolyM, k.c, k.d, k.fail)
    [] k.op = "MoveCtor"    -> PolyMoveCtor(PolyM, k.c, k.d)
    [] k.op = "Dtor"        -> PolyDtor(PolyM, k.c)
    [] k.op = "CopyAssign"  -> PolyCopyAssign(PolyM, k.c, k.d, k.fail)
    [] k.op = "MoveAssign"  -> PolyMoveAssign(PolyM, k.c, k.d)
    [] k.op = "Emplace"     -> PolyEmplace(PolyM, k.c, k.U, k.v)
    [] k.op = "Reset"       -> PolyReset(PolyM, k.c)
    [] k.op = "Swap"        -> PolySwap(PolyM, k.c, k.d)
    [] k.op = "AnyCast"     -> WriteRef(PolyAnyCastImpl(PolyM, k.c, k.U), k.v)

\* what the call does in the Procedural variant
ProcDo(k) ==
  CASE k.op = "DefaultCtor" -> ProcM
    [] k.op = "ValueCtor"   -> ProcValueCtor(ProcM, k.c, k.U, k.v)
    [] k.op = "CopyCtor"    -> ProcCopyCtor(ProcM, k.c, k.d, k.fail)
    [] k.op = "MoveCtor"    -> ProcMoveCtor(ProcM, k.c, k.d)
    [] k.op = "Dtor"        -> ProcDtor(ProcM, k.c)
    [] k.op = "CopyAssign"  -> ProcCopyAssign(ProcM, k.c, k.d, k.fail)
    [] k.op = "MoveAssign"  -> ProcMoveAssign(ProcM, k.c, k.d)
    [] k.op = "Emplace"     -> ProcEmplace(ProcM, k.c, k.U, k.v)
    [] k.op = "Reset"       -> ProcReset(ProcM, k.c)
    [] k.op = "Swap"        -> ProcSwap(ProcM, k.c, k.d)
    [] k.op = "AnyCast"     -> WriteRef(ProcAnyCastImpl(ProcM, k.c, k.U), k.v)

IsCtor(k) == k.op \in {"DefaultCtor", "ValueCtor", "CopyCtor", "MoveCtor"}

\* the call runs `new`
Allocates(k) ==
  \/ k.op \in {"ValueCtor", "Emplace"}
  \/ k.op \in {"CopyCtor", "CopyAssign"} /\ k.c # k.d /\ base_[k.d] # Null /\ ~k.fail

HasRoom == NAlloc(polyHeap) < MaxRec /\ NAlloc(procHeap) < MaxRec

\* the call is one the program can make in this state: constructors run on
\* storage that holds no object, everything else on live objects; a copy
\* constructor of the value throws only where one is called
CanCall(k) ==
  /\ IF IsCtor(k) THEN ~alive[k.c] ELSE alive[k.c]
  /\ k.d # 0 => alive[k.d]
  /\ Allocates(k) => HasRoom
  /\ k.fail => (k.c # k.d /\ base_[k.d] # Null)

\* lifetimes after the call; a constructor that throws constructs nothing
AliveAfter(k) ==
  IF IsCtor(k) THEN [alive EXCEPT ![k.c] = ~k.fail]
  ELSE IF k.op = "Dtor" THEN [alive EXCEPT ![k.c] = FALSE]
  ELSE alive

Destroyed(M) == \E i \in DOMAIN M.ev : M.ev[i].k = "destroy"

\* what is remembered of a call besides its operation: a self-assignment, a
\* copy that threw, a call that destroyed a record (in both variants)
Tag(k, P, Q) ==
  IF k.op \in {"CopyAssign", "MoveAssign"} /\ k.c = k.d THEN "self"
  ELSE IF P.exc = "copy" /\ Q.exc = "copy" THEN "threw"
  ELSE IF Destroyed(P) /\ Destroyed(Q) THEN "destroyed"
  ELSE ""

\* the whole call, in both variants
Step(k) ==
  /\ CanCall(k)
  /\ LET P == PolyDo(k)
         Q == ProcDo(k)
     IN /\ alive' = AliveAfter(k)
        /\ base_' = P.slot
        /\ polyHeap' = P.heap
        /\ vtable_' = Q.slot
        /\ procHeap' = Q.heap
        /\ last' = [op |-> k.op, tag |-> Tag(k, P, Q)]

Init ==
  /\ base_ = [s \in Slots |-> Null]
  /\ vtable_ = [s \in Slots |-> Null]
  /\ polyHeap = [r \in Rec |-> NoRec]
  /\ procHeap = [r \in Rec |-> ProcNoRec]
  /\ alive = [c \in Cont |-> FALSE]
  /\ last = [op |-> "init", tag |-> ""]

\* Any c;
DefaultCtor(c) == Step(Call("DefaultCtor", c, 0, NoU, 0, FALSE))

\* Any c(value);
ValueCtor(c, U, v) == Step(Call("ValueCtor", c, 0, U, v, FALSE))

\* Any c(d);
CopyCtor(c, d, fail) == Step(Call("CopyCtor", c, d, NoU, 0, fail))

\* Any c(std::move(d));
MoveCtor(c, d) == Step(Call("MoveCtor", c, d, NoU, 0, FALSE))

\* end of c's lifetime
Dtor(c) == Step(Call("Dtor", c, 0, NoU, 0, FALSE))

\* c = d;
CopyAssign(c, d, fail) == Step(Call("CopyAssign", c, d, NoU, 0, fail))

\* c = std::move(d);
MoveAssign(c, d) == Step(Call("MoveAssign", c, d, NoU, 0, FALSE))

\* c.Emplace<U>(v);
Emplace(c, U, v) == Step(Call("Emplace", c, 0, U, v, FALSE))

\* c.Reset();
Reset(c) == Step(Call("Reset", c, 0, NoU, 0, FALSE))

\* c.Swap(d);
Swap(c, d) == Step(Call("Swap", c, d, NoU, 0, FALSE))

\* c.AnyCast<T>() = w;   (a BadCast propagates to the caller: nothing is stored)
AnyCast(c, T, w) == Step(Call("AnyCast", c, 0, Plain(T), w, FALSE))

Next ==
  \/ \E c \in Cont : DefaultCtor(c)
  \/ \E c \in Cont, U \in ReqTy, v \in Val : ValueCtor(c, U, v)
  \/ \E c, d \in Cont, fail \in BOOLEAN : CopyCtor(c, d, fail)
  \/ \E c, d \in Cont : MoveCtor(c, d)
  \/ \E c \in Cont : Dtor(c)
  \/ \E c, d \in Cont, fail \in BOOLEAN : CopyAssign(c, d, fail)
  \/ \E c, d \in Cont : MoveAssign(c, d)
  \/ \E c \in Cont, U \in ReqTy, v \in Val : Emplace(c, U, v)
  \/ \E c \in Cont : Reset(c)
  \/ \E c, d \in Cont : Swap(c, d)
  \/ \E c \in Cont, T \in BaseTy, w \in Val : AnyCast(c, T, w)

Spec == Init /\ [][Next]_vars

TypeOK ==
  /\ base_ \in [Slots -> Rec \cup {Null}]
  /\ vtable_ \in [Slots -> Rec \cup {Null}]
  /\ alive \in [Cont -> BOOLEAN]
  /\ base_[Temp] = Null /\ vtable_[Temp] = Null
  /\ last.op \in {"init"} \cup {k.op : k \in Calls}
  /\ last.tag \in {"", "self", "threw", "destroyed"}

(* ------------------- what a caller can observe -------------------------- *)

NoVal == 0 - 1

\* (HasValue(), Type(), the value AnyCast<Type()>() refers to) of container c
PolyObs(slot, heap, c) ==
  LET type == PolyType(slot, heap, c)
      R    == PolyAnyCastImpl(Mach(slot, heap), c, Plain(type))
  IN [has |-> PolyHasValue(slot, c), type |-> type,
      val |-> IF R.exc = "none" /\ R.ret \in Rec THEN heap[R.ret].value_ ELSE NoVal]

ProcObs(slot, heap, c) ==
  LET type == ProcType(slot, heap, c)
      R    == ProcAnyCastImpl(Mach(slot, heap), c, Plain(type))
  IN [has |-> ProcHasValue(slot, c), type |-> type,
      val |-> IF R.exc = "none" /\ R.ret \in Rec THEN heap[R.ret].value_ ELSE NoVal]

EmptyObs == [has |-> FALSE, type |-> VoidTy, val |-> NoVal]

\* one variant before a call, and after call k
PolyPre == [variant |-> "Polymorphic", slot |-> base_, heap |-> polyHeap]
ProcPre == [variant |-> "Procedural", slot |-> vtable_, heap |-> procHeap]

PolyPost(k) ==
  LET M == PolyDo(k) IN
  [variant |-> "Polymorphic", slot |-> M.slot, heap |-> M.heap, out |-> Out(M)]

ProcPost(k) ==
  LET M == ProcDo(k) IN
  [variant |-> "Procedural", slot |-> M.slot, heap |-> M.heap, out |-> Out(M)]

Obs(S, c) ==
  IF S.variant = "Polymorphic" THEN PolyObs(S.slot, S.heap, c)
  ELSE ProcObs(S.slot, S.heap, c)

\* Type() of container c
TypeOf(S, c) ==
  IF S.variant = "Polymorphic" THEN PolyType(S.slot, S.heap, c)
  ELSE ProcType(S.slot, S.heap, c)

SameObs(S, T) == \A c \in Cont : Obs(S, c) = Obs(T, c)

\* P(pre, post, k) holds of every call k the program can make in this state,
\* in both variants
EveryCall(P(_, _, _), K) ==
  \A k \in K : CanCall(k) =>
     LET polyPost == PolyPost(k)
         procPost == ProcPost(k)
     IN P(PolyPre, polyPost, k) /\ P(ProcPre, procPost, k)

\* the calls of some operations
CallsOf(ops) == {k \in Calls : k.op \in ops}

AnyCastCalls  == CallsOf({"AnyCast"})
CopyCalls     == CallsOf({"CopyCtor", "CopyAssign"})
MoveCalls     == CallsOf({"MoveCtor", "MoveAssign"})
AssignCalls   == CallsOf({"CopyAssign", "MoveAssign"})
EmplaceCalls  == CallsOf({"Emplace"})
SwapCalls     == CallsOf({"Swap"})
ResetCalls    == CallsOf({"Reset"})
TeardownCalls == CallsOf({"Reset", "Dtor"})
\* what can be done to a container after it was copied
LaterCalls ==
  CallsOf({"AnyCast", "Reset", "Emplace", "CopyAssign", "MoveAssign", "Dtor"})

\* how often event (k, r) occurs in ev
Count(ev, k, r) == Cardinality({i \in DOMAIN ev : ev[i] = Ev(k, r)})
Kinds(ev) == {ev[i].k : i \in DOMAIN ev}

\* no two containers own the same record
Exclusive(slot) ==
  \A x, y \in Cont : (x # y /\ slot[x] # Null) => slot[x] # slot[y]

\* container x and the record it owns are exactly as before the call
Untouched(pre, post, x) ==
  /\ post.slot[x] = pre.slot[x]
  /\ pre.slot[x] # Null => post.heap[pre.slot[x]] = pre.heap[pre.slot[x]]
  /\ Obs(post, x) = Obs(pre, x)

(***************************************************************************)
(* C1.  AnyCast<U> throws BadCast exactly when the container is empty or   *)
(* the held type differs from U; otherwise the reference it returns is the *)
(* stored value itself, so a value written through it is what the next     *)
(* AnyCast<U> yields.  A failed AnyCast changes nothing.                   *)
(***************************************************************************)

\* the outcome R of AnyCast<U> on container c of machine state M holding `held`
C1_CastOutcome(M, R, c, U, held) ==
  /\ (R.exc = "BadCast") <=> (M.slot[c] = Null \/ Plain(held) # U)
  /\ R.exc = "none" => R.ret = M.slot[c]
  /\ R.slot = M.slot /\ R.heap = M.heap

C1_Read(Us) ==
  \A c \in Cont, U \in Us : alive[c] =>
    /\ C1_CastOutcome(PolyM, PolyAnyCastImpl(PolyM, c, U), c, U,
                      PolyType(base_, polyHeap, c))
    /\ C1_CastOutcome(ProcM, ProcAnyCastImpl(ProcM, c, U), c, U,
                      ProcType(vtable_, procHeap, c))

C1_WriteThrough(pre, post, k) ==
  /\ post.slot = pre.slot
  /\ post.out.exc = "none" =>
       /\ Obs(post, k.c) = [has |-> TRUE, type |-> TypeId(k.U), val |-> k.v]
       /\ \A r \in Rec : r # pre.slot[k.c] => post.heap[r] = pre.heap[r]
  /\ post.out.exc # "none" => post.heap = pre.heap

C1_Extract == C1_Read(ReqTy) /\ EveryCall(C1_WriteThrough, AnyCastCalls)

\* C1 for the decayed types only (U = std::decay_t<U>): the part of C1 that
\* the code keeps.
C1_ExtractDecayed ==
  C1_Read({Plain(T) : T \in BaseTy}) /\ EveryCall(C1_WriteThrough, AnyCastCalls)

(***************************************************************************)
(* C2.  Copy independence: after Any c(d) or c = d (c, d distinct) c has   *)
(* the HasValue, Type and value d had, d is unchanged, and the two own     *)
(* different records; an operation on one container never changes what a   *)
(* container that is not its argument holds.  An empty d gives an empty c. *)
(***************************************************************************)
C2_Copied(pre, post, k) ==
  (k.c # k.d /\ post.out.exc = "none") =>
     /\ Obs(post, k.c) = Obs(pre, k.d)
     /\ Untouched(pre, post, k.d)
     /\ Obs(pre, k.d).has => (post.slot[k.c] # post.slot[k.d] /\ post.slot[k.c] # Null)
     /\ ~Obs(pre, k.d).has => Obs(post, k.c) = EmptyObs

C2_Independent(pre, post, k) ==
  /\ Exclusive(post.slot)
  /\ \A x \in Cont : (alive[x] /\ x \notin {k.c, k.d}) => Untouched(pre, post, x)

C2_CopyIndependence ==
  /\ EveryCall(C2_Copied, CopyCalls)
  /\ EveryCall(C2_Independent, LaterCalls)

\* a copy assignment from a holding container onto another one has happened
C2_Witness ==
  /\ last.op = "CopyAssign" /\ last.tag \in {"", "destroyed"}
  /\ \E c, d \in Cont :
       /\ c # d /\ alive[c] /\ alive[d]
       /\ base_[c] # Null /\ base_[d] # Null /\ base_[c] # base_[d]
       /\ vtable_[c] # Null /\ vtable_[d] # Null /\ vtable_[c] # vtable_[d]
       /\ PolyObs(base_, polyHeap, c) = PolyObs(base_, polyHeap, d)
       /\ ProcObs(vtable_, procHeap, c) = ProcObs(vtable_, procHeap, d)

(***************************************************************************)
(* C3.  Move: after Any c(std::move(d)) or c = std::move(d) (c, d          *)
(* distinct) d is empty and c owns the very record d owned (or is empty),  *)
(* no value is copied, the moved record is not destroyed, and in the       *)
(* assignment the record c owned before is destroyed exactly once.         *)
(***************************************************************************)
C3_Moved(pre, post, k) ==
  LET c   == k.c
      d   == k.d
      old == IF k.op = "MoveAssign" THEN pre.slot[c] ELSE Null
  IN c # d =>
       /\ Obs(post, d) = EmptyObs
       /\ post.slot[c] = pre.slot[d]
       /\ Obs(post, c) = Obs(pre, d)
       /\ pre.slot[d] # Null => post.heap[pre.slot[d]] = pre.heap[pre.slot[d]]
       /\ post.out.ev = IF old = Null THEN <<>> ELSE <<Ev("destroy", old)>>
       /\ old # Null => (post.heap[old].st = "freed" /\ post.heap[old].destroys = 1)
       /\ \A r \in Rec : r # old => post.heap[r] = pre.heap[r]

C3_MoveTransfers == EveryCall(C3_Moved, MoveCalls)

\* a move assignment between two holding containers has happened: the
\* target's record was destroyed, the source is empty, the target holds
C3_Witness ==
  /\ last.op = "MoveAssign" /\ last.tag = "destroyed"
  /\ \E c, d \in Cont :
       /\ c # d /\ alive[c] /\ alive[d]
       /\ base_[c] # Null /\ base_[d] = Null
       /\ vtable_[c] # Null /\ vtable_[d] = Null

(***************************************************************************)
(* C4.  Emplace always replaces: after Emplace<T>(args) the container      *)
(* holds a T built from args, Type() is T's token, the reference returned  *)
(* is the stored value, and the value held before has been torn down       *)
(* exactly once.                                                           *)
(***************************************************************************)
C4_Replaced(pre, post, k) ==
  LET c   == k.c
      old == pre.slot[c]
  IN /\ Obs(post, c) = [has |-> TRUE, type |-> TypeId(Plain(Decay(k.U))), val |-> k.v]
     /\ post.out.exc = "none" /\ post.out.ret = post.slot[c]
     /\ post.slot[c] # old /\ pre.heap[post.slot[c]].st = "unalloc"
     /\ Count(post.out.ev, "construct", post.slot[c]) = 1
     /\ old # Null =>
          /\ Count(post.out.ev, "destroy", old) = 1
          /\ post.heap[old].st = "freed" /\ post.heap[old].destroys = 1
     /\ Len(post.out.ev) = IF old = Null THEN 1 ELSE 2

\* C4 as stated: the old value is torn down before the new one is constructed
C4_TeardownFirst(pre, post, k) ==
  pre.slot[k.c] # Null =>
     post.out.ev = <<Ev("destroy", pre.slot[k.c]), Ev("construct", post.slot[k.c])>>

\* C4 as amended: the old value is torn down after the new one is constructed
C4_ConstructFirst(pre, post, k) ==
  pre.slot[k.c] # Null =>
     post.out.ev = <<Ev("construct", post.slot[k.c]), Ev("destroy", pre.slot[k.c])>>

C5_Swapped(pre, post, k) ==
  LET c == k.c
      d == k.d
  IN /\ post.slot[c] = pre.slot[d] /\ post.slot[d] = pre.slot[c]
     /\ Obs(post, c) = Obs(pre, d) /\ Obs(post, d) = Obs(pre, c)
     /\ post.heap = pre.heap
     /\ post.out.ev = <<>> /\ post.out.exc = "none"
     /\ \A x \in Slots \ {c, d} : post.slot[x] = pre.slot[x]

C5_Twice ==
  \A c, d \in Cont : (alive[c] /\ alive[d]) =>
    /\ PolySwap(PolySwap(PolyM, c, d), c, d) = PolyM
    /\ ProcSwap(ProcSwap(ProcM, c, d), c, d) = ProcM

C5_SwapExchanges == EveryCall(C5_Swapped, SwapCalls) /\ C5_Twice

\* a Swap of a holding container with an empty one has happened
C5_Witness ==
  /\ last.op = "Swap"
  /\ \E c, d \in Cont :
       /\ alive[c] /\ alive[d]
       /\ vtable_[c] = Null /\ vtable_[d] # Null
       /\ base_[c] = Null /\ base_[d] # Null

(***************************************************************************)
(* C6.  Self-assignment, a = a and a = std::move(a), is a no-op in both    *)
(* variants: HasValue, Type and value stay, and nothing is cloned,         *)
(* constructed or destroyed.                                               *)
(***************************************************************************)
C6_NoOp(pre, post, k) ==
  k.c = k.d =>
     /\ post.slot = pre.slot /\ post.heap = pre.heap
     /\ SameObs(post, pre)
     /\ post.out.ev = <<>> /\ post.out.exc = "none"

C6_SelfAssignNoOp == EveryCall(C6_NoOp, AssignCalls)

\* a copy self-assignment of a holding container has happened
C6_Witness ==
  /\ last.op = "CopyAssign" /\ last.tag = "self"
  /\ \A c \in Cont : alive[c] => (vtable_[c] # Null /\ base_[c] # Null)

(***************************************************************************)
(* C7.  Strong guarantee: when cloning fails in Any c(d) or c = d, d is    *)
(* untouched, c is exactly as before (same record, Type, value), and no    *)
(* record is leaked or destroyed.                                          *)
(***************************************************************************)
C7_RolledBack(pre, post, k) ==
  k.fail =>
     /\ post.out.exc = "copy"
     /\ post.slot = pre.slot /\ post.heap = pre.heap
     /\ SameObs(post, pre)
     /\ post.out.ev = <<>>
     /\ AliveAfter(k) = alive

C7_StrongGuarantee == EveryCall(C7_RolledBack, CopyCalls)

\* a copy assignment onto a holding container has failed in the clone
C7_Witness ==
  /\ last.op = "CopyAssign" /\ last.tag = "threw"
  /\ \A c \in Cont : alive[c] /\ vtable_[c] # Null /\ base_[c] # Null

(***************************************************************************)
(* C8.  For every container, always: HasValue() iff the slot is non-null,  *)
(* Type() is typeid(void) iff not HasValue(), and a holding container's    *)
(* Type() is the token of the decayed type its record was created with,    *)
(* which copy, move, assignment and swap preserve.  A default-constructed  *)
(* container is empty.                                                     *)
(***************************************************************************)
C8_Inv ==
  \A c \in Cont : alive[c] =>
    /\ PolyHasValue(base_, c) <=> base_[c] # Null
    /\ PolyType(base_, polyHeap, c) = VoidTy <=> ~PolyHasValue(base_, c)
    /\ PolyHasValue(base_, c) => PolyType(base_, polyHeap, c) \in BaseTy
    /\ ProcHasValue(vtable_, c) <=> vtable_[c] # Null
    /\ ProcType(vtable_, procHeap, c) = VoidTy <=> ~ProcHasValue(vtable_, c)
    /\ ProcHasValue(vtable_, c) => ProcType(vtable_, procHeap, c) \in BaseTy

\* the container that owns record r after the call reports `type`
C8_Reports(post, r, type) ==
  \A x \in Cont : post.slot[x] = r => TypeOf(post, x) = type

C8_Created(pre, post, k) ==
  /\ k.op = "DefaultCtor" => Obs(post, k.c) = EmptyObs
  /\ k.op \in {"ValueCtor", "Emplace"} =>
       /\ post.slot[k.c] # Null
       /\ C8_Reports(post, post.slot[k.c], TypeId(Plain(Decay(k.U))))
  /\ (k.op \in {"CopyCtor", "CopyAssign"} /\ "copy" \in Kinds(post.out.ev)) =>
       /\ post.slot[k.c] # Null
       /\ C8_Reports(post, post.slot[k.c], TypeOf(pre, k.d))
  \* a record that exists before and after is reported with the same type
  /\ \A x, y \in Cont :
       (pre.slot[x] # Null /\ post.slot[y] = pre.slot[x]) =>
          TypeOf(post, y) = TypeOf(pre, x)

C8_TypeTracksRecord == C8_Inv /\ EveryCall(C8_Created, Calls)

\* a record created as string has been handed on to another container
C8_Witness ==
  /\ last.op \in {"MoveAssign", "Swap", "MoveCtor"} /\ last.tag # "self"
  /\ \E c \in Cont : /\ alive[c]
                     /\ PolyType(base_, polyHeap, c) = "string"
                     /\ ProcType(vtable_, procHeap, c) = "string"

(***************************************************************************)
(* C9.  Reset: afterwards HasValue() is false and Type() is typeid(void);  *)
(* the record held is destroyed exactly once by the Reset and never again  *)
(* (by a later Reset or by the destructor); Reset of an empty container    *)
(* changes nothing; no other container is affected.                        *)
(***************************************************************************)
C9_ResetStep(pre, post, k) ==
  LET c   == k.c
      old == pre.slot[c]
  IN /\ Obs(post, c) = EmptyObs /\ post.slot[c] = Null
     /\ post.out.ev = IF old = Null THEN <<>> ELSE <<Ev("destroy", old)>>
     /\ old # Null => (post.heap[old].st = "freed" /\ post.heap[old].destroys = 1)
     /\ \A r \in Rec : r # old => post.heap[r] = pre.heap[r]
     /\ \A x \in Slots \ {c} : post.slot[x] = pre.slot[x]
     /\ \A x \in Cont \ {c} : Obs(post, x) = Obs(pre, x)

\* a destroyed record is never touched again, by a Reset or a destructor
C9_Once(pre, post, k) ==
  \A r \in Rec : pre.heap[r].st = "freed" =>
     (post.heap[r] = pre.heap[r] /\ post.heap[r].destroys = 1
      /\ Count(post.out.ev, "destroy", r) = 0)

C9_ResetEmpties ==
  EveryCall(C9_ResetStep, ResetCalls) /\ EveryCall(C9_Once, TeardownCalls)

\* a Reset of a holding container has happened
C9_Witness ==
  /\ last.op = "Reset" /\ last.tag = "destroyed"
  /\ \E c \in Cont : alive[c] /\ base_[c] = Null /\ vtable_[c] = Null

(***************************************************************************)
(* C10.  Exclusive ownership, exactly-once teardown: every live record is  *)
(* owned by exactly one slot, no slot refers to a destroyed record, no     *)
(* record is destroyed more than once, and when no container is left every *)
(* record ever created has been destroyed exactly once.                    *)
(***************************************************************************)
C10_Owned(slot, heap) ==
  /\ \A r \in Rec : heap[r].st = "live" =>
       /\ Cardinality({s \in Slots : slot[s] = r}) = 1
       /\ \E c \in Cont : alive[c] /\ slot[c] = r
  /\ \A s \in Slots : slot[s] # Null => heap[slot[s]].st = "live"
  /\ \A r \in Rec :
       /\ heap[r].destroys <= 1
       /\ heap[r].st = "freed" <=> heap[r].destroys = 1
       /\ heap[r].st = "unalloc" <=> r > NAlloc(heap)
  /\ (\A c \in Cont : ~alive[c]) =>
       \A r \in Rec : r <= NAlloc(heap) =>
          (heap[r].st = "freed" /\ heap[r].destroys = 1)

C10_SingleOwner == C10_Owned(base_, polyHeap) /\ C10_Owned(vtable_, procHeap)

\* every container is gone again after all records of the heap were used
C10_Witness ==
  /\ \A c \in Cont : ~alive[c]
  /\ NAlloc(polyHeap) = MaxRec /\ NAlloc(procHeap) = MaxRec

(***************************************************************************)
(* C11.  The two variants are observationally equivalent: driven by the    *)
(* same calls they agree, for every container, on HasValue, Type and the   *)
(* value AnyCast yields, on which AnyCast<U> raise BadCast and which       *)
(* return the stored value, and for every call on what it throws, what it  *)
(* returns and the constructions, copies and destructions of stored values *)
(* it performs, in number and order.                                       *)
(***************************************************************************)

\* what the caller gets back from a call on container c: the exception, and
\* whether the reference returned is the value stored in c
C11_Returned(M, c) ==
  [exc |-> M.exc,
   ret |-> IF M.ret = Null THEN "none"
           ELSE IF M.ret = M.slot[c] THEN "stored" ELSE "other"]

C11_SameObs ==
  \A c \in Cont : alive[c] =>
    /\ PolyObs(base_, polyHeap, c) = ProcObs(vtable_, procHeap, c)
    /\ \A U \in ReqTy :
         C11_Returned(PolyAnyCastImpl(PolyM, c, U), c)
           = C11_Returned(ProcAnyCastImpl(ProcM, c, U), c)

C11_SameEffects ==
  \A k \in Calls : CanCall(k) =>
    LET P == PolyDo(k)
        Q == ProcDo(k)
    IN /\ P.ev = Q.ev
       /\ C11_Returned(P, k.c) = C11_Returned(Q, k.c)
       /\ \A c \in Cont : P.slot[c] = Null <=> Q.slot[c] = Null

C11_VariantsEquivalent == C11_SameObs /\ C11_SameEffects

\* two containers holding values of different types have been swapped after
\* a record was destroyed
C11_Witness ==
  /\ last.op = "Swap"
  /\ \E c, d \in Cont :
       /\ alive[c] /\ alive[d]
       /\ PolyType(base_, polyHeap, c) = "int" /\ ProcType(vtable_, procHeap, c) = "int"
       /\ PolyType(base_, polyHeap, d) = "string"
       /\ ProcType(vtable_, procHeap, d) = "string"
  /\ \E r \in Rec : polyHeap[r].st = "freed" /\ procHeap[r].st = "freed"

(***************************************************************************)
(* C12.  The transitions of a container between Empty and Holding, and     *)
(* from one held record to another, happen only through the operations     *)
(* listed; every other call leaves it as it is.  A container under         *)
(* construction counts as Empty before; a destroyed one no longer exists.  *)
(***************************************************************************)
C12_Held(S, x) == S.slot[x] # Null

\* the three kinds of transition of container x in call k
C12_EmptyToHolding(pre, post, x) == ~C12_Held(pre, x) /\ C12_Held(post, x)
C12_HoldingToEmpty(pre, post, x) == C12_Held(pre, x) /\ ~C12_Held(post, x)
C12_HoldingToOther(pre, post, x) ==
  C12_Held(pre, x) /\ C12_Held(post, x) /\ post.slot[x] # pre.slot[x]

\* the transitions as listed in C12 (any constructor that gives the new
\* container a value is taken as construct-with-value)
C12_Listed(pre, post, k) ==
  \A x \in Cont : AliveAfter(k)[x] =>
    /\ C12_EmptyToHolding(pre, post, x) =>
         (x = k.c /\ (IsCtor(k) \/ k.op = "Emplace"))
    /\ C12_HoldingToOther(pre, post, x) =>
         \/ x = k.c /\ k.op \in {"CopyAssign", "MoveAssign", "Emplace"}
         \/ x \in {k.c, k.d} /\ k.op = "Swap"
    /\ C12_HoldingToEmpty(pre, post, x) =>
         \/ x = k.c /\ k.op = "Reset"
         \/ x = k.d /\ k.c # k.d /\ k.op \in {"MoveCtor", "MoveAssign"}
         \/ x = k.c /\ k.op = "MoveAssign" /\ ~C12_Held(pre, k.d)

\* the transitions the operations make
C12_Made(pre, post, k) ==
  \A x \in Cont : AliveAfter(k)[x] =>
    /\ C12_EmptyToHolding(pre, post, x) =>
         \/ x = k.c /\ k.op \in {"ValueCtor", "Emplace"}
         \/ /\ x = k.c /\ k.c # k.d /\ C12_Held(pre, k.d)
            /\ k.op \in {"CopyCtor", "MoveCtor", "CopyAssign", "MoveAssign"}
         \/ /\ k.op = "Swap" /\ x \in {k.c, k.d} /\ k.c # k.d
            /\ \E y \in {k.c, k.d} \ {x} : C12_Held(pre, y)
    /\ C12_HoldingToOther(pre, post, x) =>
         \/ x = k.c /\ k.op = "Emplace"
         \/ /\ x = k.c /\ k.c # k.d /\ C12_Held(pre, k.d)
            /\ k.op \in {"CopyAssign", "MoveAssign"}
         \/ /\ k.op = "Swap" /\ x \in {k.c, k.d} /\ k.c # k.d
            /\ \E y \in {k.c, k.d} \ {x} : C12_Held(pre, y)
    /\ C12_HoldingToEmpty(pre, post, x) =>
         \/ x = k.c /\ k.op = "Reset"
         \/ x = k.d /\ k.c # k.d /\ k.op \in {"MoveCtor", "MoveAssign"}
         \/ /\ x = k.c /\ k.c # k.d /\ ~C12_Held(pre, k.d)
            /\ k.op \in {"CopyAssign", "MoveAssign"}
         \/ /\ k.op = "Swap" /\ x \in {k.c, k.d} /\ k.c # k.d
            /\ \E y \in {k.c, k.d} \ {x} : ~C12_Held(pre, y)

\* C12 (original statement): only the listed transitions
C12_OnlyListedTransitions == EveryCall(C12_Listed, Calls)

\* C12 (amended statement): the listed transitions, and those of an
\* assignment or copy/move construction from a holding source, of a copy
\* assignment from an empty source, and of Swap
C12_OnlyMadeTransitions == EveryCall(C12_Made, Calls)

\* a copy assignment has filled an empty container from a holding one
C12_Witness ==
  /\ last.op = "CopyAssign" /\ last.tag = ""
  /\ \A c \in Cont : alive[c] /\ base_[c] # Null /\ vtable_[c] # Null
  /\ base_[1] # base_[2] /\ vtable_[1] # vtable_[2]

(***************************************************************************)
(* C13.  Procedural variant: the table of the clone, identify and destroy  *)
(* functions of a type T exists once and is shared: the live records of    *)
(* type T do not each carry the function addresses, and the table of a     *)
(* record is never modified after the record's construction.               *)
(***************************************************************************)

\* the records that store the function addresses of T in their own storage
C13_Copies(heap, T) ==
  {r \in Rec : heap[r].st = "live" /\ heap[r].func_table_ = MakeFuncTable(T)}

\* every live record has the table of its own type, and a call leaves the
\* table of every record that stays alive as it is
C13_TableOfType(heap) ==
  \A r \in Rec : heap[r].st = "live" =>
     (heap[r].type \in BaseTy /\ heap[r].func_table_ = MakeFuncTable(heap[r].type))

C13_TableFixed ==
  /\ C13_TableOfType(procHeap)
  /\ \A k \in Calls : CanCall(k) =>
       LET Q == ProcDo(k) IN
       \A r \in Rec : (procHeap[r].st = "live" /\ Q.heap[r].st = "live") =>
          Q.heap[r].func_table_ = procHeap[r].func_table_

\* C13: the function addresses of a type are stored in one place only, and
\* never modified
C13_SharedTable ==
  /\ \A T \in BaseTy : Cardinality(C13_Copies(procHeap, T)) <= 1
  /\ C13_TableFixed
====
